---- MODULE Spec2Model ----
(***************************************************************************)
(* Model of src/src/util.py: the data-loading and analysis helpers of the  *)
(* decoding experiments.  Each helper is modelled as the state machine of  *)
(* its own body (loop position, accumulators, return value or raised       *)
(* error), with the files and library results it reads as inputs.          *)
(*                                                                         *)
(* Floating point values are modelled as fixed-point numbers: an integer v *)
(* stands for v / SCALE, divisions and square roots round to the nearest   *)
(* unit, and NaN is a value of its own that every operation propagates.    *)
(*                                                                         *)
(* The helpers share no state, so each has a specification of its own:     *)
(* SpecRanks (eval_ranks), SpecLoad (load_encodings, load_brain_data),     *)
(* SpecDec (load_decoding_perfs, load_decoding_preds), SpecWil             *)
(* (wilcoxon_rank_preds) and SpecMeta (load_bert_finetune_metadata); the   *)
(* variables of the other helpers stay at their idle values.               *)
(***************************************************************************)
EXTENDS Integers, Sequences, FiniteSets, TLC

\* ------------------------------------------------------------------------
\* Bounds of the model
\* ------------------------------------------------------------------------
SCALE == 100
MaxM == 2
MaxNTest == 3
MaxCalls == 2
MaxPaths == 2
MaxProject == 3
MaxPairsArg == 2
MaxEvents == 3
MaxEvalEvents == 1

\* ------------------------------------------------------------------------
\* State
\* ------------------------------------------------------------------------
VARIABLES
  \* eval_ranks: the caller's argument objects and what the calls returned
  Y_pred, idxs, encodings, encodings_normed, tiebreak, Y_arg, rets,
  \* load_encodings: arguments, the local list, position, log and outcome
  paths, project, encoding_list, enc_pc, enc_ret, enc_log,
  \* load_brain_data: the last call (arguments, log and outcome)
  brain,
  \* load_decoding_perfs / load_decoding_preds: which of the two runs, its
  \* arguments, the names the glob has still to yield, the dictionary, outcome
  loader, results_dir, glob_prefix, todo, results, dec_pc, dec_ret,
  \* wilcoxon_rank_preds: arguments, the results dictionary, the positions
  \* of `pairs` the loop has done, outcome
  models, pairs, correct_bonferroni, wil_results, wil_tests, wil_pc, wil_ret,
  \* load_bert_finetune_metadata: argument, the events read so far from the
  \* training log and from the eval log, locals, ret, position
  checkpoint_steps, train_read, eval_read, total_global_norm, first_loss,
  cur_loss, eval_loss, eval_accuracy, ret, meta_pc

varsRanks == <<Y_pred, idxs, encodings, encodings_normed, tiebreak, Y_arg, rets>>
varsLoad == <<paths, project, encoding_list, enc_pc, enc_ret, enc_log, brain>>
varsDec == <<loader, results_dir, glob_prefix, todo, results, dec_pc, dec_ret>>
varsWil == <<models, pairs, correct_bonferroni, wil_results, wil_tests, wil_pc, wil_ret>>
varsMeta == <<checkpoint_steps, train_read, eval_read, total_global_norm, first_loss,
              cur_loss, eval_loss, eval_accuracy, ret, meta_pc>>
vars == <<varsRanks, varsLoad, varsDec, varsWil, varsMeta>>

\* Python's None, for arguments and locals that otherwise hold naturals,
\* and for an argument that otherwise holds a list of naturals
None == 0 - 1
NoneList == <<None>>

\* ------------------------------------------------------------------------
\* Floating point helpers
\* ------------------------------------------------------------------------
NaN == 0 - 10^9

IsNaN(x) == x = NaN

\* a / b rounded to the nearest integer, b > 0
RoundDiv(a, b) == (2 * a + b) \div (2 * b)

\* the greatest r with r * r <= x, by bisection on lo * lo <= x < hi * hi
RECURSIVE SqrtFloor(_, _, _)
SqrtFloor(x, lo, hi) ==
  IF hi - lo <= 1 THEN lo
  ELSE LET mid == (lo + hi) \div 2
       IN IF mid <= x \div mid THEN SqrtFloor(x, mid, hi) ELSE SqrtFloor(x, lo, mid)

\* square root of x >= 0, rounded to the nearest integer
Sqrt(x) ==
  LET r == SqrtFloor(x, 0, x + 1)
  IN IF x - r * r > r THEN r + 1 ELSE r

RECURSIVE SumSeq(_)
SumSeq(s) == IF s = <<>> THEN 0 ELSE Head(s) + SumSeq(Tail(s))

HasNaN(s) == \E i \in 1..Len(s) : IsNaN(s[i])

\* x - y on floats
FSub(x, y) == IF IsNaN(x) \/ IsNaN(y) THEN NaN ELSE x - y

\* x / y on floats, the quotient in units of 1/SCALE; 0/0 is NaN (numpy only
\* warns), and a divisor is 0 only for the norm of a row of zeros
FDiv(x, y) ==
  IF IsNaN(x) \/ IsNaN(y) THEN NaN
  ELSE IF y = 0 THEN NaN
  ELSE IF x >= 0 THEN RoundDiv(x * SCALE, y) ELSE 0 - RoundDiv((0 - x) * SCALE, y)

\* ------------------------------------------------------------------------
\* eval_ranks
\* ------------------------------------------------------------------------
NDim == 2

\* Y.mean(axis=0): the mean of every column over the rows of Y
ColMean(Y) ==
  [k \in 1..NDim |->
     LET col == [i \in 1..Len(Y) |-> Y[i][k]]
         total == SumSeq(col)
     IN IF HasNaN(col) THEN NaN
        ELSE IF total >= 0 THEN RoundDiv(total, Len(Y))
        ELSE 0 - RoundDiv(0 - total, Len(Y))]

\* np.linalg.norm(Y, axis=1, keepdims=True)[i]
RowNorm(row) ==
  IF HasNaN(row) THEN NaN
  ELSE Sqrt(SumSeq([k \in 1..NDim |-> row[k] * row[k]]))

\* Y_pred -= Y_pred.mean(axis=0)
Centered(Y) ==
  LET m == ColMean(Y)
  IN [i \in 1..Len(Y) |-> [k \in 1..NDim |-> FSub(Y[i][k], m[k])]]

\* Y_pred /= np.linalg.norm(Y_pred, axis=1, keepdims=True)
RowNormalized(Y) ==
  [i \in 1..Len(Y) |->
     LET norm == RowNorm(Y[i])
     IN [k \in 1..NDim |-> FDiv(Y[i][k], norm)]]

\* what the two in-place statements leave in the caller's Y_pred
Normed(Y, normed) == IF normed THEN RowNormalized(Centered(Y)) ELSE Y

\* np.dot(Y_pred, encodings.T)[i][j], j a 0-based index of encodings
Dot(row, enc) ==
  IF HasNaN(row) THEN NaN
  ELSE SumSeq([k \in 1..NDim |-> row[k] * enc[k]])

Similarities(Y, E) ==
  [i \in 1..Len(Y) |-> [j \in 0..(Len(E) - 1) |-> Dot(Y[i], E[j + 1])]]

\* similarities taken without the sign change
NegIdentity(x) == x

\* -similarities
Neg(x) == IF IsNaN(x) THEN NaN ELSE 0 - x

\* strict "sorts before" of a.argsort(): smaller key first, NaN last; elements
\* that compare equal are ordered as the sort implementation happens to leave
\* them (numpy's default sort is not stable), which tb fixes for the run.
SortsBefore(keys, tb, a, b) ==
  IF IsNaN(keys[a]) /\ IsNaN(keys[b]) THEN tb[a] < tb[b]
  ELSE IF IsNaN(keys[a]) THEN FALSE
  ELSE IF IsNaN(keys[b]) THEN TRUE
  ELSE keys[a] < keys[b] \/ (keys[a] = keys[b] /\ tb[a] < tb[b])

\* keys.argsort(): position p holds the index of the p-th smallest key
ArgSort(keys, tb) ==
  LET place == [j \in DOMAIN keys |->
                  Cardinality({k \in DOMAIN keys : SortsBefore(keys, tb, k, j)})]
  IN [p \in DOMAIN keys |-> CHOOSE j \in DOMAIN keys : place[j] = p]

\* orders = (-similarities).argsort(axis=1); ranks = orders.argsort(axis=1)
Ranks(sims, tb) ==
  [i \in DOMAIN sims |->
     LET negated == [j \in DOMAIN sims[i] |-> Neg(sims[i][j])]
         orders == ArgSort(negated, tb)
     IN ArgSort(orders, tb)]

\* ranks[np.arange(len(idxs)), idxs]
RanksTest(ranks, ix) == [i \in DOMAIN ranks |-> ranks[i][ix[i]]]

Perms(n) == {f \in [0..(n - 1) -> 0..(n - 1)] : \A a, b \in 0..(n - 1) : f[a] = f[b] => a = b}

\* rows of the float arrays the caller may pass, in natural units; a row is
\* padded with zeros up to NDim columns
EncList == <<<<0, 4>>, <<0, 8>>, <<5, 0>>>>
PredList == <<<<3, 4>>, <<-3, 0>>, <<0, -4>>>>

Scaled(row) == [k \in 1..NDim |-> IF k <= Len(row) THEN row[k] * SCALE ELSE 0]
Padded(row) == [k \in 1..NDim |-> IF k <= Len(row) THEN row[k] ELSE 0]

\* the reference matrices: M rows of EncList, rows may repeat
EncodingsInputs ==
  UNION {{[i \in 1..m |-> Padded(EncList[f[i]])] :
            f \in {g \in [1..m -> 1..Len(EncList)] :
                     \A i \in 1..(m - 1) : g[i] <= g[i + 1]}} : m \in 2..MaxM}

\* prediction matrices that are not copies of reference rows: n rows of
\* PredList taken in a circle from row s
PredInputs(n) ==
  {[i \in 1..n |-> Scaled(PredList[((s + i - 2) % Len(PredList)) + 1])] :
     s \in 1..Len(PredList)}

IdleRanks ==
  /\ Y_pred = <<>> /\ idxs = <<>> /\ encodings = <<>> /\ encodings_normed = FALSE
  /\ tiebreak = <<>> /\ Y_arg = <<>> /\ rets = <<>>

IdleLoad ==
  /\ paths = <<>> /\ project = None /\ encoding_list = <<>> /\ enc_pc = "idle"
  /\ enc_ret = None /\ enc_log = <<>> /\ brain = [pc |-> "idle"]

IdleDec ==
  /\ loader = "" /\ results_dir = {} /\ glob_prefix = <<>> /\ todo = {}
  /\ results = <<>> /\ dec_pc = "idle" /\ dec_ret = None

IdleWil ==
  /\ models = {} /\ pairs = <<>> /\ correct_bonferroni = FALSE /\ wil_results = <<>>
  /\ wil_tests = {} /\ wil_pc = "idle" /\ wil_ret = None

IdleMeta ==
  /\ checkpoint_steps = NoneList /\ train_read = <<>> /\ eval_read = <<>>
  /\ total_global_norm = 0 /\ first_loss = None /\ cur_loss = None
  /\ eval_loss = None /\ eval_accuracy = None /\ ret = <<>> /\ meta_pc = "idle"

InitRanks ==
  /\ IdleLoad /\ IdleDec /\ IdleWil /\ IdleMeta
  /\ encodings \in EncodingsInputs
  /\ \E n \in 1..MaxNTest :
       \/ \* every prediction row is a copy of its reference row
          /\ idxs \in [1..n -> 0..(Len(encodings) - 1)]
          /\ Y_pred = [i \in 1..n |-> [k \in 1..NDim |-> encodings[idxs[i] + 1][k] * SCALE]]
       \/ \* other predictions, all of the same dataset index
          /\ \E c \in 0..(Len(encodings) - 1) : idxs = [i \in 1..n |-> c]
          /\ Y_pred \in PredInputs(n)
       \/ \* one index more than there are prediction rows
          /\ idxs = [i \in 1..(n + 1) |-> 0]
          /\ Y_pred \in PredInputs(n)
  /\ encodings_normed \in BOOLEAN
  /\ tiebreak \in Perms(Len(encodings))
  /\ Y_arg = Y_pred
  /\ rets = <<>>

\* one call eval_ranks(Y_pred, idxs, encodings, encodings_normed) on the
\* caller's objects; what the call did is appended to rets
eval_ranks ==
  /\ Len(rets) < MaxCalls
  /\ IF Len(Y_pred) # Len(idxs)
     THEN \* assert N_test == len(idxs)
          /\ rets' = Append(rets, [raised |-> "AssertionError"])
          /\ UNCHANGED Y_pred
     ELSE LET Y == Normed(Y_pred, encodings_normed)
              ranks == Ranks(Similarities(Y, encodings), tiebreak)
          IN /\ Y_pred' = Y
             /\ rets' = Append(rets, [raised |-> "", ranks |-> ranks,
                                      ranks_test |-> RanksTest(ranks, idxs)])
  /\ UNCHANGED <<idxs, encodings, encodings_normed, tiebreak, Y_arg>>
  /\ UNCHANGED <<varsLoad, varsDec, varsWil, varsMeta>>

NextRanks == eval_ranks

SpecRanks == InitRanks /\ [][NextRanks]_vars

\* ------------------------------------------------------------------------
\* Properties of eval_ranks
\* ------------------------------------------------------------------------
\* the prediction rows passed to the first call are the reference rows
PerfectPrediction ==
  /\ Len(Y_arg) = Len(idxs)
  /\ \A i \in 1..Len(Y_arg) :
       \A k \in 1..NDim : Y_arg[i][k] = encodings[idxs[i] + 1][k] * SCALE

\* C1: when every prediction row equals its reference row, the returned
\* rank_of_correct is 0 for every row.
C1_PerfectRankZero ==
  (Len(rets) >= 1 /\ PerfectPrediction) =>
    \A i \in 1..Len(idxs) : rets[1].ranks_test[i] = 0

\* C4: two calls in a row with the same argument objects return the same
\* result.
C4_SameResultTwice ==
  Len(rets) >= 2 => rets[2] = rets[1]

\* IEEE comparison x > y: false as soon as one side is NaN
FGreater(x, y) == ~IsNaN(x) /\ ~IsNaN(y) /\ x > y

FileShapes ==
  [a |-> [rows |-> 2, width |-> 1],
   b |-> [rows |-> 2, width |-> 3],
   c |-> [rows |-> 3, width |-> 2],
   d |-> [rows |-> 4, width |-> 4]]

PathNames == {"a", "b", "c", "d", "missing"}

FileExists(path) == path \in DOMAIN FileShapes

\* np.load(path) / io.loadmat(path)["examples"] of a file that exists
LoadMatrix(path) ==
  [rows |-> FileShapes[path].rows,
   cols |-> [c \in 1..FileShapes[path].width |-> <<"raw", path, c>>]]

Width(mat) == Len(mat.cols)

\* PCA(k).fit(mat).transform(mat): k components, which the library accepts
\* only when k is at most min(rows, width)
PCAFits(mat, k) == k <= mat.rows /\ k <= Width(mat)

PCATransform(mat, path, k) ==
  [rows |-> mat.rows, cols |-> [c \in 1..k |-> <<"pc", path, c>>]]

\* the projection block with its width test turned around
ProjectFlipped(mat, path, prj) ==
  IF prj = None THEN [err |-> "", mat |-> mat, log |-> <<>>]
  ELSE IF Width(mat) > prj
    THEN [err |-> "", mat |-> mat, log |-> <<[level |-> "info", path |-> path],
                                            [level |-> "warn", path |-> path]>>]
  ELSE IF ~PCAFits(mat, prj)
    THEN [err |-> "ValueError(PCA)", mat |-> mat, log |-> <<[level |-> "info", path |-> path]>>]
  ELSE [err |-> "", mat |-> PCATransform(mat, path, prj),
        log |-> <<[level |-> "info", path |-> path], [level |-> "info", path |-> path]>>]

\* lines 35-44: what the projection block does to encodings_i; the outcome
\* is the matrix left in encodings_i, the records logged, and the error raised
ProjectEncodings(mat, path, prj) ==
  IF prj = None THEN [err |-> "", mat |-> mat, log |-> <<>>]
  ELSE IF Width(mat) < prj
    THEN [err |-> "", mat |-> mat, log |-> <<[level |-> "info", path |-> path],
                                            [level |-> "warn", path |-> path]>>]
  ELSE IF ~PCAFits(mat, prj)
    THEN [err |-> "ValueError(PCA)", mat |-> mat, log |-> <<[level |-> "info", path |-> path]>>]
  ELSE [err |-> "", mat |-> PCATransform(mat, path, prj),
        log |-> <<[level |-> "info", path |-> path], [level |-> "info", path |-> path]>>]

\* lines 55-63: the same block in load_brain_data, on subject_images
ProjectImages(mat, path, prj) ==
  IF prj = None THEN [err |-> "", mat |-> mat, log |-> <<>>]
  ELSE IF Width(mat) < prj
    THEN [err |-> "", mat |-> mat, log |-> <<[level |-> "info", path |-> path],
                                            [level |-> "warn", path |-> path]>>]
  ELSE IF ~PCAFits(mat, prj)
    THEN [err |-> "ValueError(PCA)", mat |-> mat, log |-> <<[level |-> "info", path |-> path]>>]
  ELSE [err |-> "", mat |-> PCATransform(mat, path, prj),
        log |-> <<[level |-> "info", path |-> path], [level |-> "info", path |-> path]>>]

\* the columns with the files taken last to first
RECURSIVE ConcatColsReversed(_)
ConcatColsReversed(mats) ==
  IF mats = <<>> THEN <<>> ELSE ConcatColsReversed(Tail(mats)) \o Head(mats).cols

\* the columns of the matrices of a list, one matrix after the other
RECURSIVE ConcatCols(_)
ConcatCols(mats) ==
  IF mats = <<>> THEN <<>> ELSE Head(mats).cols \o ConcatCols(Tail(mats))

\* np.concatenate(mats, axis=1) of a non-empty list with equal row counts
Concatenate(mats) == [rows |-> mats[1].rows, cols |-> ConcatCols(mats)]

\* np.concatenate raises on an empty list and on unequal row counts
CanConcatenate(mats) ==
  /\ mats # <<>>
  /\ \A i \in 1..Len(mats) : mats[i].rows = mats[1].rows

InitLoad ==
  /\ IdleRanks /\ IdleDec /\ IdleWil /\ IdleMeta
  /\ paths \in UNION {[1..n -> PathNames] : n \in 0..MaxPaths}
  /\ project \in {None} \cup 1..MaxProject
  /\ encoding_list = <<>>
  /\ enc_pc = "loop"
  /\ enc_ret = None
  /\ enc_log = <<>>
  /\ brain = [pc |-> "idle"]

\* one iteration of `for encoding_path in paths` (lines 31-46)
load_encodings_iter ==
  /\ enc_pc = "loop"
  /\ Len(encoding_list) < Len(paths)
  /\ LET encoding_path == paths[Len(encoding_list) + 1]
     IN IF ~FileExists(encoding_path)
        THEN /\ enc_pc' = "IOError"
             /\ UNCHANGED <<encoding_list, enc_log>>
        ELSE LET encodings_i == LoadMatrix(encoding_path)
                 r == ProjectEncodings(encodings_i, encoding_path, project)
                 loaded == <<[level |-> "info", path |-> encoding_path]>>
             IN /\ enc_log' = enc_log \o loaded \o r.log
                /\ IF r.err # ""
                   THEN /\ enc_pc' = r.err
                        /\ UNCHANGED encoding_list
                   ELSE /\ encoding_list' = Append(encoding_list, r.mat)
                        /\ UNCHANGED enc_pc
  /\ UNCHANGED <<paths, project, enc_ret, brain>>
  /\ UNCHANGED <<varsRanks, varsDec, varsWil, varsMeta>>

\* after the loop: np.concatenate(encodings, axis=1) and return (lines 48-49)
load_encodings_return ==
  /\ enc_pc = "loop"
  /\ Len(encoding_list) = Len(paths)
  /\ IF CanConcatenate(encoding_list)
     THEN /\ enc_ret' = Concatenate(encoding_list)
          /\ enc_pc' = "returned"
     ELSE /\ enc_pc' = "ValueError(concatenate)"
          /\ UNCHANGED enc_ret
  /\ UNCHANGED <<paths, project, encoding_list, enc_log, brain>>
  /\ UNCHANGED <<varsRanks, varsDec, varsWil, varsMeta>>

\* a call load_brain_data(path, project) (lines 52-65)
load_brain_data ==
  /\ \E path \in PathNames, prj \in {None} \cup 1..MaxProject :
       IF ~FileExists(path)
       THEN brain' = [pc |-> "IOError", path |-> path, project |-> prj]
       ELSE LET subject_images == LoadMatrix(path)
                r == ProjectImages(subject_images, path, prj)
            IN brain' = [pc |-> IF r.err # "" THEN r.err ELSE "returned",
                         path |-> path, project |-> prj,
                         ret |-> r.mat, log |-> r.log]
  /\ UNCHANGED <<paths, project, encoding_list, enc_pc, enc_ret, enc_log>>
  /\ UNCHANGED <<varsRanks, varsDec, varsWil, varsMeta>>

NextLoad == load_encodings_iter \/ load_encodings_return \/ load_brain_data

SpecLoad == InitLoad /\ [][NextLoad]_vars

\* ------------------------------------------------------------------------
\* Properties of load_encodings and load_brain_data
\* ------------------------------------------------------------------------
Warned(log, path) ==
  \E i \in 1..Len(log) : log[i] = [level |-> "warn", path |-> path]

\* the projection rule on the matrix `out` kept for the file at `path`
ProjectionRule(out, log, path, k) ==
  LET D == FileShapes[path].width
  IN /\ k <= D => Width(out) = k
     /\ k > D => out = LoadMatrix(path) /\ Width(out) = D /\ Warned(log, path)

\* C5: with project=k, the matrix a loader keeps for a file of width D has
\* width exactly k if k <= D, and is the loaded matrix unchanged, with a
\* warning logged, if k > D; load_encodings and load_brain_data follow the
\* same rule.
C5_ProjectionWidth ==
  /\ project # None =>
       \A i \in 1..Len(encoding_list) :
         ProjectionRule(encoding_list[i], enc_log, paths[i], project)
  /\ (brain.pc = "returned" /\ brain.project # None) =>
       ProjectionRule(brain.ret, brain.log, brain.path, brain.project)

\* load_encodings has reduced one file and kept another one unchanged, and
\* load_brain_data has returned a reduced matrix
C5_Witness ==
  /\ project # None
  /\ \E i \in 1..Len(encoding_list) :
       project < FileShapes[paths[i]].width /\ Width(encoding_list[i]) = project
  /\ \E i \in 1..Len(encoding_list) :
       project > FileShapes[paths[i]].width /\ Warned(enc_log, paths[i])
  /\ brain.pc = "returned"
  /\ brain.project # None
  /\ brain.project < FileShapes[brain.path].width

RECURSIVE WidthsBefore(_)
WidthsBefore(i) ==
  IF i <= 1 THEN 0 ELSE WidthsBefore(i - 1) + FileShapes[paths[i - 1]].width

\* C6: without projection, N >= 1 files with the same number of rows load
\* into a matrix of width sum(D_i) whose columns are the columns of the
\* files in the order of `paths`.
C6_ConcatenatedWidth ==
  /\ (enc_pc = "returned" /\ project = None) =>
       /\ Width(enc_ret) = WidthsBefore(Len(paths) + 1)
       /\ \A i \in 1..Len(paths) : \A c \in 1..FileShapes[paths[i]].width :
            enc_ret.cols[WidthsBefore(i) + c] = <<"raw", paths[i], c>>
  /\ ( /\ enc_pc # "loop"
       /\ project = None
       /\ Len(paths) >= 1
       /\ \A i \in 1..Len(paths) :
            FileExists(paths[i]) /\ FileShapes[paths[i]].rows = FileShapes[paths[1]].rows
     ) => enc_pc = "returned"

\* two files of different widths have been loaded and concatenated
C6_Witness ==
  /\ enc_pc = "returned"
  /\ project = None
  /\ Len(paths) >= 2
  /\ FileShapes[paths[1]].width # FileShapes[paths[2]].width

\* ------------------------------------------------------------------------
\* load_decoding_perfs, load_decoding_preds
\* ------------------------------------------------------------------------
\* File names are sequences of characters.
CsvSuffix == <<".", "c", "s", "v">>
PredSuffix == <<".", "p", "r", "e", "d", ".", "n", "p", "y">>

\* the names a results directory may hold
NameCsvA == <<"p", ".", "m", "-", "r", "u", "n", "1", "-", "2", "-", "s">> \o CsvSuffix
NameCsvB == <<"p", ".", "m", "-", "r", "u", "n", "0", "1", "-", "2", "-", "s">> \o CsvSuffix
NameCsvQ == <<"q", ".", "m", "-", "r", "u", "n", "1", "-", "3", "-", "s">> \o CsvSuffix
NameCsvPred == <<"p", ".", "m", ".", "p", "r", "e", "d">> \o CsvSuffix
NameCsvDash == <<"p", ".", "b", "-", "m", "-", "r", "u", "n", "1", "-", "2", "-", "s">> \o CsvSuffix
NamePredA == <<"p", ".", "m", "-", "r", "u", "n", "1", "-", "2", "-", "s">> \o PredSuffix
NamePredQ == <<"q", ".", "m", "-", "r", "u", "n", "2", "-", "3", "-", "s">> \o PredSuffix
NamePredX == <<"p", ".", "x">> \o PredSuffix
NameTxt == <<"p", ".", "t", "x", "t">>

DirNames ==
  {NameCsvA, NameCsvB, NameCsvQ, NameCsvPred, NameCsvDash,
   NamePredA, NamePredQ, NamePredX, NameTxt}

\* files the reading library rejects (a csv without the mse and r2 columns,
\* a truncated npy file)
Unreadable == {NameCsvQ, NamePredQ}

Prefixes == {<<>>, <<"p">>, <<"q">>}

Digits == {"0", "1", "2", "3", "4", "5", "6", "7", "8", "9"}
IsDigit(ch) == ch \in Digits
\* \w: letters, digits and the underscore, that is every character of the
\* names above but "." and "-"
IsWord(ch) == ch \notin {".", "-"}

StartsWith(name, pre) ==
  Len(name) >= Len(pre) /\ SubSeq(name, 1, Len(pre)) = pre

EndsWith(name, suf) ==
  Len(name) >= Len(suf) /\ SubSeq(name, Len(name) - Len(suf) + 1, Len(name)) = suf

\* Path(results_dir).glob("%s*<suffix>" % (glob_prefix or "")) on one name
GlobMatches(name, pre, suf) ==
  /\ Len(name) >= Len(pre) + Len(suf)
  /\ StartsWith(name, pre)
  /\ EndsWith(name, suf)

\* the first position at or after p whose character is not of the class
RECURSIVE WordEnd(_, _)
WordEnd(name, p) ==
  IF p <= Len(name) /\ IsWord(name[p]) THEN WordEnd(name, p + 1) ELSE p

RECURSIVE DigitsEnd(_, _)
DigitsEnd(name, p) ==
  IF p <= Len(name) /\ IsDigit(name[p]) THEN DigitsEnd(name, p + 1) ELSE p

At(name, p, chars) ==
  p + Len(chars) - 1 <= Len(name) /\ SubSeq(name, p, p + Len(chars) - 1) = chars

\* decoder_re matched with its "." at position i:
\* \.(\w+)-run(\d+)-(\d+)-([\w\d]+)<suffix>$
MatchAt(name, i, suf) ==
  LET b == WordEnd(name, i + 1)
      d == DigitsEnd(name, b + 4)
      f == DigitsEnd(name, d + 1)
      h == WordEnd(name, f + 1)
  IN /\ name[i] = "."
     /\ b > i + 1
     /\ At(name, b, <<"-", "r", "u", "n">>)
     /\ d > b + 4
     /\ At(name, d, <<"-">>)
     /\ f > d + 1
     /\ At(name, f, <<"-">>)
     /\ h > f + 1
     /\ SubSeq(name, h, Len(name)) = suf

\* decoder_re.findall(name): the start positions of the matches
FindAll(name, suf) == {i \in 1..Len(name) : MatchAt(name, i, suf)}

\* int(digits)
RECURSIVE ToInt(_)
ToInt(digits) ==
  IF digits = <<>> THEN 0
  ELSE 10 * ToInt(SubSeq(digits, 1, Len(digits) - 1))
       + (CHOOSE v \in 0..9 : <<"0", "1", "2", "3", "4", "5", "6", "7", "8", "9">>[v + 1]
                                = digits[Len(digits)])

\* (model, int(run), int(step), subject) of decoder_re.findall(name)[0]
Key(name, suf) ==
  LET i == CHOOSE p \in FindAll(name, suf) : \A q \in FindAll(name, suf) : p <= q
      b == WordEnd(name, i + 1)
      d == DigitsEnd(name, b + 4)
      f == DigitsEnd(name, d + 1)
      h == WordEnd(name, f + 1)
  IN <<SubSeq(name, i + 1, b - 1), ToInt(SubSeq(name, b + 4, d - 1)),
       ToInt(SubSeq(name, d + 1, f - 1)), SubSeq(name, f + 1, h - 1)>>

Suffix(which) == IF which = "perfs" THEN CsvSuffix ELSE PredSuffix

\* the names the glob yields for a call
Globbed(dir, pre, which) == {name \in dir : GlobMatches(name, pre, Suffix(which))}

EmptyDict == [k \in {} |-> None]

\* results[key] = value
DictSet(dict, key, value) ==
  [k \in DOMAIN dict \cup {key} |-> IF k = key THEN value ELSE dict[k]]

\* the emptiness test left out
NoResultsNever(dict) == FALSE

\* len(results) == 0 (lines 85 and 107)
NoResults(dict) == Cardinality(DOMAIN dict) = 0

InitDec ==
  /\ IdleRanks /\ IdleLoad /\ IdleWil /\ IdleMeta
  /\ loader \in {"perfs", "preds"}
  /\ results_dir \in SUBSET DirNames
  /\ glob_prefix \in Prefixes
  /\ todo = Globbed(results_dir, glob_prefix, loader)
  /\ results = EmptyDict
  /\ dec_pc = "loop"
  /\ dec_ret = None

\* one iteration of the loop over the glob (lines 80-83 and 103-105); the
\* glob yields the names in the order the file system lists them
load_decoding_iter ==
  /\ dec_pc = "loop"
  /\ \E name \in todo :
       /\ todo' = todo \ {name}
       /\ IF FindAll(name, Suffix(loader)) = {}
          THEN \* decoder_re.findall(name)[0] on an empty list
               /\ dec_pc' = "IndexError"
               /\ UNCHANGED results
          ELSE IF name \in Unreadable
          THEN \* pd.read_csv / np.load raises
               /\ dec_pc' = "LibraryError"
               /\ UNCHANGED results
          ELSE /\ results' = DictSet(results, Key(name, Suffix(loader)), name)
               /\ UNCHANGED dec_pc
  /\ UNCHANGED <<loader, results_dir, glob_prefix, dec_ret>>
  /\ UNCHANGED <<varsRanks, varsLoad, varsWil, varsMeta>>

\* after the loop: raise on an empty dictionary, else return the table or
\* the dictionary built from it (lines 85-91 and 107-110)
load_decoding_return ==
  /\ dec_pc = "loop"
  /\ todo = {}
  /\ IF NoResults(results)
     THEN /\ dec_pc' = "ValueError(no results)"
          /\ UNCHANGED dec_ret
     ELSE /\ dec_pc' = "returned"
          /\ dec_ret' = results
  /\ UNCHANGED <<loader, results_dir, glob_prefix, todo, results>>
  /\ UNCHANGED <<varsRanks, varsLoad, varsWil, varsMeta>>

NextDec == load_decoding_iter \/ load_decoding_return

SpecDec == InitDec /\ [][NextDec]_vars

\* ------------------------------------------------------------------------
\* Properties of load_decoding_perfs and load_decoding_preds
\* ------------------------------------------------------------------------
\* C2: when the glob yields zero matching files the call raises the "No
\* valid ... found" ValueError and returns nothing.
C2_NoMatchesRaises ==
  (dec_pc # "loop" /\ Globbed(results_dir, glob_prefix, loader) = {}) =>
    (dec_pc = "ValueError(no results)" /\ dec_ret = None)

\* the directory holds files, none matches the glob, and the call has raised
C2_Witness ==
  /\ dec_pc = "ValueError(no results)"
  /\ results_dir # {}
  /\ glob_prefix # <<>>
  /\ Globbed(results_dir, glob_prefix, loader) = {}

\* C7: every error outcome is an error of the file/array library or the "no
\* results found" ValueError, and the latter is raised only when the glob
\* yields zero matches.
C7_OnlyLibraryOrNoResultsErrors ==
  /\ dec_pc \in {"loop", "returned", "LibraryError", "ValueError(no results)"}
  /\ dec_pc = "ValueError(no results)" =>
       Globbed(results_dir, glob_prefix, loader) = {}

\* ------------------------------------------------------------------------
\* wilcoxon_rank_preds
\* ------------------------------------------------------------------------
\* The models whose prediction csv exists, with the subjects its rows name;
\* a model outside this table has no csv file.
ModelSubjects ==
  [m1 |-> {"s1", "s2"},
   m2 |-> {"s1", "s2"},
   m3 |-> {"s1"}]

ModelNames == {"m1", "m2", "m3", "m4"}

\* p-values st.wilcoxon may return, in units of 1/SCALE
PVals == {3, 60}

\* list(itertools.combinations(models.keys(), 2)), the keys in dict order
ModelOrder == <<"m1", "m2", "m3", "m4">>

RECURSIVE Combinations(_, _, _)
Combinations(ms, i, j) ==
  IF i > Len(ModelOrder) THEN <<>>
  ELSE IF j > Len(ModelOrder) THEN Combinations(ms, i + 1, i + 2)
  ELSE IF ModelOrder[i] \in ms /\ ModelOrder[j] \in ms
    THEN <<<<ModelOrder[i], ModelOrder[j]>>>> \o Combinations(ms, i, j + 1)
  ELSE Combinations(ms, i, j + 1)

\* the `pairs` argument when it is not None: a list of pairs of the models
PairsInputs(ms) ==
  UNION {[1..n -> {pr \in ms \X ms : pr[1] # pr[2]}] : n \in 0..MaxPairsArg}

\* the corrected value capped at 1.0
BonferroniClamped(p_val, correction) ==
  IF p_val * correction > SCALE THEN SCALE ELSE p_val * correction

\* results.p_val * correction (line 183)
Bonferroni(p_val, correction) == p_val * correction

\* pd.concat(results, names=["model1", "model2"]): one row for every pair
\* and subject, indexed by (model1, model2, subject)
ConcatResults(dict) ==
  LET index == UNION {{<<pr[1], pr[2], s>> : s \in DOMAIN dict[pr]} : pr \in DOMAIN dict}
  IN [row \in index |-> [p_val |-> dict[<<row[1], row[2]>>][row[3]]]]

\* results["p_val_corrected"] = results.p_val * len(results)
WithCorrection(table) ==
  LET correction == Cardinality(DOMAIN table)
  IN [row \in DOMAIN table |->
        [p_val |-> table[row].p_val,
         p_val_corrected |-> Bonferroni(table[row].p_val, correction)]]

InitWil ==
  /\ IdleRanks /\ IdleLoad /\ IdleDec /\ IdleMeta
  /\ models \in (SUBSET ModelNames) \ {{}}
  /\ \/ pairs = Combinations(models, 1, 2)
     \/ pairs \in PairsInputs(models)
  /\ correct_bonferroni \in BOOLEAN
  /\ wil_results = EmptyDict
  /\ wil_tests = {}
  /\ wil_pc = "read"
  /\ wil_ret = None

\* the dictionary of the models' prediction tables (lines 164-165):
\* pd.read_csv raises for a model without a csv
wilcoxon_read ==
  /\ wil_pc = "read"
  /\ wil_pc' = IF \A m \in models : m \in DOMAIN ModelSubjects THEN "loop" ELSE "LibraryError"
  /\ UNCHANGED <<models, pairs, correct_bonferroni, wil_results, wil_tests, wil_ret>>
  /\ UNCHANGED <<varsRanks, varsLoad, varsDec, varsMeta>>

\* one iteration of `for model1, model2 in pairs` (lines 170-176): one test
\* for every subject of model1's table, its p-value as the library returns it
wilcoxon_pair ==
  /\ wil_pc = "loop"
  /\ Cardinality(wil_tests) < Len(pairs)
  /\ LET i == Cardinality(wil_tests) + 1
         model1 == pairs[i][1]
         model2 == pairs[i][2]
     IN /\ \E pair_results \in [ModelSubjects[model1] -> PVals] :
             wil_results' = DictSet(wil_results, <<model1, model2>>, pair_results)
        /\ wil_tests' = wil_tests \cup {i}
  /\ UNCHANGED <<models, pairs, correct_bonferroni, wil_pc, wil_ret>>
  /\ UNCHANGED <<varsRanks, varsLoad, varsDec, varsMeta>>

\* after the loop: concatenate, sort by index, correct, return (lines
\* 178-185); pd.concat raises on an empty dictionary
wilcoxon_return ==
  /\ wil_pc = "loop"
  /\ Cardinality(wil_tests) = Len(pairs)
  /\ IF DOMAIN wil_results = {}
     THEN /\ wil_pc' = "ValueError(concat)"
          /\ UNCHANGED wil_ret
     ELSE /\ wil_pc' = "returned"
          /\ wil_ret' = IF correct_bonferroni
                        THEN WithCorrection(ConcatResults(wil_results))
                        ELSE ConcatResults(wil_results)
  /\ UNCHANGED <<models, pairs, correct_bonferroni, wil_results, wil_tests>>
  /\ UNCHANGED <<varsRanks, varsLoad, varsDec, varsMeta>>

NextWil == wilcoxon_read \/ wilcoxon_pair \/ wilcoxon_return

SpecWil == InitWil /\ [][NextWil]_vars

\* ------------------------------------------------------------------------
\* Properties of wilcoxon_rank_preds
\* ------------------------------------------------------------------------
\* the comparisons of a call: one for every different pair of `pairs` and
\* every subject of the pair's first model
Comparisons ==
  UNION {{<<pairs[i][1], pairs[i][2], s>> : s \in ModelSubjects[pairs[i][1]]} :
           i \in 1..Len(pairs)}

\* C3: with correct_bonferroni=True every row's p_val_corrected is the
\* row's p_val times the number of comparisons, not clamped to 1.0.
C3_BonferroniUnclamped ==
  (wil_pc = "returned" /\ correct_bonferroni) =>
    /\ DOMAIN wil_ret = Comparisons
    /\ \A row \in DOMAIN wil_ret :
         wil_ret[row].p_val_corrected = wil_ret[row].p_val * Cardinality(Comparisons)

\* a corrected table of several comparisons holds a corrected value above 1
C3_Witness ==
  /\ wil_pc = "returned"
  /\ correct_bonferroni
  /\ Cardinality(DOMAIN wil_ret) >= 2
  /\ \E row \in DOMAIN wil_ret : wil_ret[row].p_val_corrected > SCALE

\* ------------------------------------------------------------------------
\* load_bert_finetune_metadata
\* ------------------------------------------------------------------------
\* An event of a log is its step and its summary values, each a tag and a
\* simple_value.
Val(tag, v) == [tag |-> tag, simple_value |-> v]

TrainSummaries ==
  {<<>>,
   <<Val("learning_rate", 7), Val("grads/global_norm", 1)>>,
   <<Val("loss", 3)>>,
   <<Val("grads/global_norm", 2), Val("loss_1", 5)>>}

EvalSummaries ==
  {<<Val("eval_loss", 4)>>, <<Val("eval_accuracy", 1), Val("eval_loss", 6)>>}

Steps == {1, 2}

\* the events of a training log: the header event an events file opens with
\* (step 0, no values), and events of the steps with a summary
TrainEvents ==
  {[step |-> 0, summary |-> <<>>]} \cup [step : Steps, summary : TrainSummaries]

EvalEvents == [step : {2}, summary : EvalSummaries]

\* the checkpoint_steps argument
CheckpointStepsInputs == {NoneList, <<1>>, <<2>>, <<1, 2>>}

StepWanted(cs, step) ==
  IF cs = NoneList THEN TRUE ELSE \E i \in 1..Len(cs) : cs[i] = step

\* what opening the checkpoint and reading its two tensors leave in ret
\* (lines 196-209): both values, or NaN for what was not read before the
\* NotFoundError
CheckpointOutcomes ==
  {[global_steps |-> 9, output_dims |-> 2],
   [global_steps |-> 9, output_dims |-> NaN],
   [global_steps |-> NaN, output_dims |-> NaN]}

\* the inner loop with `total_global_norm = v.simple_value`
RECURSIVE ReadValuesAssign(_, _, _)
ReadValuesAssign(e, i, st) ==
  IF i > Len(e.summary) THEN st
  ELSE LET v == e.summary[i]
       IN IF v.tag = "grads/global_norm"
          THEN ReadValuesAssign(e, i + 1, [st EXCEPT !.total_global_norm = v.simple_value])
          ELSE IF v.tag \in {"loss_1", "loss"}
          THEN ReadValuesAssign(e, i + 1,
                 [st EXCEPT !.first_loss = IF e.step = 1 THEN v.simple_value ELSE st.first_loss,
                            !.cur_loss = v.simple_value])
          ELSE ReadValuesAssign(e, i + 1, st)

\* the inner loop `for v in e.summary.value` (lines 225-235) from position i
\* on the locals st = [total_global_norm, first_loss, cur_loss]
RECURSIVE ReadValues(_, _, _)
ReadValues(e, i, st) ==
  IF i > Len(e.summary) THEN st
  ELSE LET v == e.summary[i]
       IN IF v.tag = "grads/global_norm"
          THEN ReadValues(e, i + 1,
                 [st EXCEPT !.total_global_norm = st.total_global_norm + v.simple_value])
          ELSE IF v.tag \in {"loss_1", "loss"}
          THEN ReadValues(e, i + 1,
                 [st EXCEPT !.first_loss = IF e.step = 1 THEN v.simple_value ELSE st.first_loss,
                            !.cur_loss = v.simple_value])
          ELSE ReadValues(e, i + 1, st)


\* the inner loop of the eval pass (lines 258-263) from position i on the
\* locals st = [eval_loss, eval_accuracy]
RECURSIVE ReadEvalValues(_, _, _)
ReadEvalValues(e, i, st) ==
  IF i > Len(e.summary) THEN st
  ELSE LET v == e.summary[i]
       IN IF v.tag = "eval_loss"
          THEN ReadEvalValues(e, i + 1, [st EXCEPT !.eval_loss = v.simple_value])
          ELSE IF v.tag = "eval_accuracy"
          THEN ReadEvalValues(e, i + 1, [st EXCEPT !.eval_accuracy = v.simple_value])
          ELSE ReadEvalValues(e, i + 1, st)

\* ret["steps"][step].update(entry) on the steps dictionary
UpdateStep(steps, step, entry) ==
  [s \in DOMAIN steps \cup {step} |->
     IF s # step THEN steps[s]
     ELSE IF s \in DOMAIN steps
       THEN [k \in DOMAIN steps[s] \cup DOMAIN entry |->
               IF k \in DOMAIN entry THEN entry[k] ELSE steps[s][k]]
     ELSE entry]

InitMeta ==
  /\ IdleRanks /\ IdleLoad /\ IdleDec /\ IdleWil
  /\ checkpoint_steps \in CheckpointStepsInputs
  /\ train_read = <<>>
  /\ eval_read = <<>>
  /\ total_global_norm = 0
  /\ first_loss = None
  /\ cur_loss = None
  /\ eval_loss = None
  /\ eval_accuracy = None
  /\ ret = <<>>
  /\ meta_pc = "ckpt"

\* lines 196-211: open the checkpoint (model.ckpt, else the checkpoint of the
\* last step when checkpoint_steps is given), read the two tensors, then
\* look for the training events file (lines 214-223)
meta_checkpoint ==
  /\ meta_pc = "ckpt"
  /\ \/ \* no checkpoint can be opened: NotFoundError leaves the function
        /\ meta_pc' = "NotFoundError"
        /\ UNCHANGED ret
     \/ \E c \in CheckpointOutcomes, has_events \in BOOLEAN :
          /\ ret' = [global_steps |-> c.global_steps, output_dims |-> c.output_dims,
                     steps |-> EmptyDict]
          /\ meta_pc' = IF has_events THEN "train" ELSE "eval_open"
  /\ UNCHANGED <<checkpoint_steps, train_read, eval_read, total_global_norm,
                 first_loss, cur_loss, eval_loss, eval_accuracy>>
  /\ UNCHANGED <<varsRanks, varsLoad, varsDec, varsWil>>

\* one iteration of the loop over the training events (lines 224-242)
meta_train_event ==
  /\ meta_pc = "train"
  /\ Len(train_read) < MaxEvents
  /\ \E e \in TrainEvents :
       LET st == ReadValues(e, 1, [total_global_norm |-> total_global_norm,
                                   first_loss |-> first_loss,
                                   cur_loss |-> cur_loss])
       IN /\ train_read' = Append(train_read, e)
          /\ total_global_norm' = st.total_global_norm
          /\ first_loss' = st.first_loss
          /\ cur_loss' = st.cur_loss
          /\ IF ~StepWanted(checkpoint_steps, e.step)
             THEN UNCHANGED <<ret, meta_pc>>
             ELSE IF st.cur_loss = None
             THEN \* None / ret["output_dims"]
                  /\ meta_pc' = "TypeError"
                  /\ UNCHANGED ret
             ELSE /\ ret' = [ret EXCEPT !.steps = UpdateStep(ret.steps, e.step,
                               [total_global_norms |-> st.total_global_norm,
                                train_loss |-> st.cur_loss,
                                train_loss_norm |-> FDiv(st.cur_loss, ret.output_dims)])]
                  /\ UNCHANGED meta_pc
  /\ UNCHANGED <<checkpoint_steps, eval_read, eval_loss, eval_accuracy>>
  /\ UNCHANGED <<varsRanks, varsLoad, varsDec, varsWil>>

\* the training log is exhausted (lines 244-245)
meta_train_end ==
  /\ meta_pc = "train"
  /\ IF first_loss = None
     THEN \* None / ret["output_dims"]
          /\ meta_pc' = "TypeError"
          /\ UNCHANGED ret
     ELSE /\ ret' = [k \in DOMAIN ret \cup {"first_train_loss", "first_train_loss_norm"} |->
                       IF k = "first_train_loss" THEN first_loss
                       ELSE IF k = "first_train_loss_norm" THEN FDiv(first_loss, ret.output_dims)
                       ELSE ret[k]]
          /\ meta_pc' = "eval_open"
  /\ UNCHANGED <<checkpoint_steps, train_read, eval_read, total_global_norm,
                 first_loss, cur_loss, eval_loss, eval_accuracy>>
  /\ UNCHANGED <<varsRanks, varsLoad, varsDec, varsWil>>

\* lines 248-256: look for the eval events file
meta_eval_open ==
  /\ meta_pc = "eval_open"
  /\ \E has_events \in BOOLEAN : meta_pc' = IF has_events THEN "eval" ELSE "returned"
  /\ UNCHANGED <<checkpoint_steps, train_read, eval_read, total_global_norm,
                 first_loss, cur_loss, eval_loss, eval_accuracy, ret>>
  /\ UNCHANGED <<varsRanks, varsLoad, varsDec, varsWil>>

\* one iteration of the loop over the eval events (lines 257-269)
meta_eval_event ==
  /\ meta_pc = "eval"
  /\ Len(eval_read) < MaxEvalEvents
  /\ \E e \in EvalEvents :
       LET st == ReadEvalValues(e, 1, [eval_loss |-> eval_loss,
                                       eval_accuracy |-> eval_accuracy])
       IN /\ eval_read' = Append(eval_read, e)
          /\ eval_loss' = st.eval_loss
          /\ eval_accuracy' = st.eval_accuracy
          /\ IF StepWanted(checkpoint_steps, e.step)
             THEN ret' = [ret EXCEPT !.steps = UpdateStep(ret.steps, e.step,
                            [eval_accuracy |-> st.eval_accuracy,
                             eval_loss |-> st.eval_loss])]
             ELSE UNCHANGED ret
  /\ UNCHANGED <<checkpoint_steps, train_read, total_global_norm, first_loss, cur_loss,
                 meta_pc>>
  /\ UNCHANGED <<varsRanks, varsLoad, varsDec, varsWil>>

\* the eval log is exhausted: return ret (line 271)
meta_return ==
  /\ meta_pc = "eval"
  /\ meta_pc' = "returned"
  /\ UNCHANGED <<checkpoint_steps, train_read, eval_read, total_global_norm,
                 first_loss, cur_loss, eval_loss, eval_accuracy, ret>>
  /\ UNCHANGED <<varsRanks, varsLoad, varsDec, varsWil>>

NextMeta ==
  \/ meta_checkpoint
  \/ meta_train_event
  \/ meta_train_end
  \/ meta_eval_open
  \/ meta_eval_event
  \/ meta_return

SpecMeta == InitMeta /\ [][NextMeta]_vars

\* ------------------------------------------------------------------------
\* Properties of load_bert_finetune_metadata
\* ------------------------------------------------------------------------
\* all values of a tag in the first n events of the training log, in order
RECURSIVE TagValues(_, _)
TagValues(n, tags) ==
  IF n = 0 THEN <<>>
  ELSE TagValues(n - 1, tags) \o
       SelectSeq([i \in 1..Len(train_read[n].summary) |->
                    IF train_read[n].summary[i].tag \in tags
                    THEN train_read[n].summary[i].simple_value ELSE None],
                 LAMBDA x : x # None)

\* the position of the last event of the training log whose step is s
LastEventAt(s) ==
  CHOOSE j \in 1..Len(train_read) :
    /\ train_read[j].step = s
    /\ \A k \in (j + 1)..Len(train_read) : train_read[k].step # s

TrainPassDone == meta_pc \in {"eval_open", "eval", "returned"}

\* the steps the training pass has recorded
TrainSteps == {s \in DOMAIN ret.steps : "total_global_norms" \in DOMAIN ret.steps[s]}

\* C9: after the whole training log is read, total_global_norms[s] of a
\* recorded step s is the sum of the grads/global_norm values of the log up
\* to and including the last event whose step is s, train_loss[s] is the
\* most recent loss / loss_1 value up to that event, and when
\* checkpoint_steps is given only its steps are recorded.
C9_StepMetrics ==
  TrainPassDone =>
    /\ \A s \in TrainSteps :
         LET j == LastEventAt(s)
             losses == TagValues(j, {"loss", "loss_1"})
         IN /\ \E k \in 1..Len(train_read) : train_read[k].step = s
            /\ ret.steps[s].total_global_norms = SumSeq(TagValues(j, {"grads/global_norm"}))
            /\ losses # <<>>
            /\ ret.steps[s].train_loss = losses[Len(losses)]
    /\ \A s \in DOMAIN ret.steps : StepWanted(checkpoint_steps, s)
    /\ \A k \in 1..Len(train_read) :
         StepWanted(checkpoint_steps, train_read[k].step) => train_read[k].step \in TrainSteps

\* the pass is over a log of three events where a recorded step is followed
\* by an event of another step that brings a new loss, norms have added up,
\* and an event's step is not in checkpoint_steps
C9_Witness ==
  /\ TrainPassDone
  /\ checkpoint_steps # NoneList
  /\ Len(train_read) = 3
  /\ \E s \in TrainSteps :
       /\ LastEventAt(s) < Len(train_read)
       /\ ret.steps[s].total_global_norms = 3
       /\ ret.steps[s].train_loss # cur_loss
  /\ \E k \in 1..Len(train_read) : ~StepWanted(checkpoint_steps, train_read[k].step)

\* C10: whatever the events of the training log, the pass over it ends
\* without error: a loss has been seen whenever a step entry is written, and
\* first_train_loss is a number at the end.
C10_TrainPassNeverFails ==
  /\ meta_pc # "TypeError"
  /\ TrainPassDone /\ train_read # <<>> => first_loss # None

====
